---------------------------- MODULE Spec2Model ----------------------------
(***************************************************************************)
(* qanik: a snowflake id generator (src/src/lib.rs).                       *)
(*                                                                         *)
(* The model holds generator instances (struct SnowFlake), the threads     *)
(* that call generate_id on them, the wall clock, and a log of what new    *)
(* and generate_id returned.  generate_id is not atomic: its fetch_add,    *)
(* its compare_exchange, its sleep and its clock read are separate steps   *)
(* that other threads interleave with.                                     *)
(***************************************************************************)
EXTENDS Integers, FiniteSets, Sequences, TLC

(***************************************************************************)
(* Bit layout (lib.rs 25-31).  SEQUENCE_BITS is 12 in the source; the      *)
(* model keeps it as a bound so that the wrap of the counter at            *)
(* MAX_SEQUENCE is reached within a few calls.  generate_id reads the      *)
(* layout only through these names.                                        *)
(***************************************************************************)
DATACENTER_ID_BITS == 3

MACHINE_ID_BITS == 7

SEQUENCE_BITS == 2

MAX_DATACENTER_ID == 2 ^ DATACENTER_ID_BITS - 1

MAX_MACHINE_ID == 2 ^ MACHINE_ID_BITS - 1

MAX_SEQUENCE == 2 ^ SEQUENCE_BITS - 1

(***************************************************************************)
(* Bounds of the model.                                                    *)
(***************************************************************************)
\* generate_id calls started, over all instances
MaxCalls == 4

\* the wall clock runs from 0 to MaxClock milliseconds after EPOCH_START
MaxClock == 1

\* calls of new
MaxNew == 2

\* the width of an id: u64 in the source, narrowed so that a timestamp that
\* does not fit the bits left to it is a clock reading the model reaches
IdBits == 16

\* the bits of an id left to the timestamp
TIMESTAMP_BITS == IdBits - (DATACENTER_ID_BITS + MACHINE_ID_BITS + SEQUENCE_BITS)

Threads == {"t1", "t2"}

\* the places a caller keeps the generators it constructed
Slots == {1, 2}

None == [none |-> TRUE]

\* arguments new is called with: in range, the two boundaries, out of range
DatacenterInputs == {0, 1, MAX_DATACENTER_ID, MAX_DATACENTER_ID + 1}

MachineInputs == {0, 1, MAX_MACHINE_ID, MAX_MACHINE_ID + 1}

(***************************************************************************)
(* u64 arithmetic of generate_id.  The timestamp is a u128 that is         *)
(* shifted and then cast to u64 (lib.rs 77-79), which keeps its low bits;  *)
(* a negative delta stands for the u128 the subtraction wraps to, and has  *)
(* the same low bits.  The other operands are u64 and stay small.          *)
(***************************************************************************)
AsU64(x) == x % 2 ^ IdBits

Shl(a, n) == a * 2 ^ n

Shr(a, n) == a \div 2 ^ n

RECURSIVE BitOr(_, _)
BitOr(a, b) ==
    IF a = 0 THEN b
    ELSE IF b = 0 THEN a
    ELSE (IF a % 2 = 1 \/ b % 2 = 1 THEN 1 ELSE 0)
             + 2 * BitOr(a \div 2, b \div 2)

\* a faulty variant of the packing: the machine id is shifted by its own
\* width instead of the width of the sequence field below it
ComposeIdMachineShift(delta, datacenter_id, machine_id, current) ==
    BitOr(BitOr(BitOr(
        AsU64(Shl(delta, DATACENTER_ID_BITS + MACHINE_ID_BITS + SEQUENCE_BITS)),
        Shl(datacenter_id, MACHINE_ID_BITS + SEQUENCE_BITS)),
        Shl(machine_id, MACHINE_ID_BITS)),
        current)

\* lib.rs 77-84: the id of a call that drew ticket current and read the
\* clock at timestamp - EPOCH_START = delta
ComposeId(delta, datacenter_id, machine_id, current) ==
    BitOr(BitOr(BitOr(
        AsU64(Shl(delta, DATACENTER_ID_BITS + MACHINE_ID_BITS + SEQUENCE_BITS)),
        Shl(datacenter_id, MACHINE_ID_BITS + SEQUENCE_BITS)),
        Shl(machine_id, SEQUENCE_BITS)),
        current)

\* the fields of an id, read back by shift and mask
SequenceField(id) == id % 2 ^ SEQUENCE_BITS

MachineField(id) == Shr(id, SEQUENCE_BITS) % 2 ^ MACHINE_ID_BITS

DatacenterField(id) ==
    Shr(id, SEQUENCE_BITS + MACHINE_ID_BITS) % 2 ^ DATACENTER_ID_BITS

TimestampField(id) ==
    Shr(id, SEQUENCE_BITS + MACHINE_ID_BITS + DATACENTER_ID_BITS)

(***************************************************************************)
(* State.                                                                  *)
(***************************************************************************)
VARIABLES
    gens,      \* slot -> None, or the SnowFlake stored there
    now,       \* the wall clock, in ms since EPOCH_START
    th,        \* thread -> where it is in generate_id, and its locals
    calls,     \* slot -> number of generate_id calls started on it
    callers,   \* slot -> the threads that have called generate_id on it
    news,      \* number of calls of new so far
    lastNew,   \* the arguments and the result of the latest call of new
    issued     \* the generate_id calls that returned, with what they returned

vars == <<gens, now, th, calls, callers, news, lastNew, issued>>

Idle == [pc |-> "idle"]

\* struct SnowFlake, as new fills it in (lib.rs 55-60)
SnowFlake(datacenter_id, machine_id) ==
    [datacenter_id |-> datacenter_id, machine_id |-> machine_id, sequence |-> 1]

DatacenterErr ==
    [ok |-> FALSE, msg |-> "Datacenter id must be less than", limit |-> MAX_DATACENTER_ID]

MachineErr ==
    [ok |-> FALSE, msg |-> "Machine id must be less than", limit |-> MAX_MACHINE_ID]

(***************************************************************************)
(* Faulty variants of new, each a slip the properties of new must catch.   *)
(***************************************************************************)
\* the range checks reject the maxima themselves
NewResultExclusive(datacenter_id, machine_id) ==
    IF datacenter_id >= MAX_DATACENTER_ID THEN DatacenterErr
    ELSE IF machine_id >= MAX_MACHINE_ID THEN MachineErr
    ELSE [ok |-> TRUE, value |-> SnowFlake(datacenter_id, machine_id)]

\* the machine id is checked before the datacenter id
NewResultMachineFirst(datacenter_id, machine_id) ==
    IF machine_id > MAX_MACHINE_ID THEN MachineErr
    ELSE IF datacenter_id > MAX_DATACENTER_ID THEN DatacenterErr
    ELSE [ok |-> TRUE, value |-> SnowFlake(datacenter_id, machine_id)]

\* the machine check reports the datacenter's error
NewResultSameError(datacenter_id, machine_id) ==
    IF datacenter_id > MAX_DATACENTER_ID THEN DatacenterErr
    ELSE IF machine_id > MAX_MACHINE_ID THEN DatacenterErr
    ELSE [ok |-> TRUE, value |-> SnowFlake(datacenter_id, machine_id)]

\* SnowFlake::new (lib.rs 43-61): the Result it returns
NewResult(datacenter_id, machine_id) ==
    IF datacenter_id > MAX_DATACENTER_ID THEN DatacenterErr
    ELSE IF machine_id > MAX_MACHINE_ID THEN MachineErr
    ELSE [ok |-> TRUE, value |-> SnowFlake(datacenter_id, machine_id)]

Init ==
    /\ gens = [s \in Slots |-> None]
    /\ now = 0
    /\ th = [t \in Threads |-> Idle]
    /\ calls = [s \in Slots |-> 0]
    /\ callers = [s \in Slots |-> {}]
    /\ news = 0
    /\ lastNew = None
    /\ issued = {}

\* a caller runs new(datacenter_id, machine_id) and keeps an Ok value in the
\* free slot s; an Err leaves it nothing to keep
New(s, datacenter_id, machine_id) ==
    /\ news < MaxNew
    /\ LET r == NewResult(datacenter_id, machine_id) IN
        /\ r.ok => gens[s] = None
        /\ gens' = IF r.ok THEN [gens EXCEPT ![s] = r.value] ELSE gens
        /\ lastNew' = [slot |-> s, datacenter_id |-> datacenter_id,
                       machine_id |-> machine_id, result |-> r]
    /\ news' = news + 1
    /\ UNCHANGED <<now, th, calls, callers, issued>>

TotalCalls == calls[1] + calls[2]

\* a faulty variant of the step: one counter shared by every generator
FetchAddShared(t, s) ==
    /\ th[t].pc = "idle"
    /\ gens[s] # None
    /\ TotalCalls < MaxCalls
    /\ gens' = [x \in Slots |->
                IF gens[x] = None THEN None
                ELSE [gens[x] EXCEPT !.sequence = @ + 1]]
    /\ calls' = [calls EXCEPT ![s] = @ + 1]
    /\ callers' = [callers EXCEPT ![s] = @ \cup {t}]
    /\ th' = [th EXCEPT ![t] = [pc |-> "cas", self |-> s, k |-> calls[s] + 1,
                                current |-> gens[s].sequence, began |-> now]]
    /\ UNCHANGED <<now, news, lastNew, issued>>

\* lib.rs 66: current = sequence.fetch_add(1).  The operations on the one
\* atomic are totally ordered whatever their memory ordering, so each is a
\* step; the counter stays far below 2^64, where fetch_add would wrap.
FetchAdd(t, s) ==
    /\ th[t].pc = "idle"
    /\ gens[s] # None
    /\ TotalCalls < MaxCalls
    /\ gens' = [gens EXCEPT ![s].sequence = @ + 1]
    /\ calls' = [calls EXCEPT ![s] = @ + 1]
    /\ callers' = [callers EXCEPT ![s] = @ \cup {t}]
    /\ th' = [th EXCEPT ![t] = [pc |-> "cas", self |-> s, k |-> calls[s] + 1,
                                current |-> gens[s].sequence, began |-> now]]
    /\ UNCHANGED <<now, news, lastNew, issued>>

\* faulty variants of the reset: it fires at and above MAX_SEQUENCE; it
\* resets to 0
CompareExchangeAtLeast(sequence) ==
    IF sequence >= MAX_SEQUENCE THEN 1 ELSE sequence

CompareExchangeToZero(sequence) ==
    IF sequence = MAX_SEQUENCE THEN 0 ELSE sequence

\* lib.rs 67: sequence.compare_exchange(MAX_SEQUENCE, 1, ..)
CompareExchange(sequence) == IF sequence = MAX_SEQUENCE THEN 1 ELSE sequence

\* a faulty variant of the branch: it sleeps when the call's own increment
\* reached MAX_SEQUENCE
MustSleepOnWrap(current) == current + 1 = MAX_SEQUENCE

\* lib.rs 68: if current == MAX_SEQUENCE
MustSleep(current) == current = MAX_SEQUENCE

\* a faulty variant of the step: the compare_exchange is retried until it
\* succeeds
CasRetry(t) ==
    /\ th[t].pc = "cas"
    /\ gens[th[t].self].sequence = MAX_SEQUENCE
    /\ gens' = [gens EXCEPT ![th[t].self].sequence = 1]
    /\ th' = [th EXCEPT ![t] =
                IF MustSleep(th[t].current)
                THEN [@ EXCEPT !.pc = "sleep"] @@ [wake |-> now + 1]
                ELSE [@ EXCEPT !.pc = "now"] @@ [slept |-> FALSE]]
    /\ UNCHANGED <<now, calls, callers, news, lastNew, issued>>

\* lib.rs 67-70: the compare_exchange, then the branch on current
Cas(t) ==
    /\ th[t].pc = "cas"
    /\ gens' = [gens EXCEPT ![th[t].self].sequence = CompareExchange(@)]
    /\ th' = [th EXCEPT ![t] =
                IF MustSleep(th[t].current)
                THEN [@ EXCEPT !.pc = "sleep"] @@ [wake |-> now + 1]
                ELSE [@ EXCEPT !.pc = "now"] @@ [slept |-> FALSE]]
    /\ UNCHANGED <<now, calls, callers, news, lastNew, issued>>

\* lib.rs 69: thread::sleep(1 ms) returns once at least 1 ms has passed
Wake(t) ==
    /\ th[t].pc = "sleep"
    /\ now >= th[t].wake
    /\ th' = [th EXCEPT ![t] = [pc |-> "now", self |-> @.self, k |-> @.k,
                                current |-> @.current, began |-> @.began,
                                slept |-> TRUE]]
    /\ UNCHANGED <<gens, now, calls, callers, news, lastNew, issued>>

\* lib.rs 72-84: read the clock, compose the id, return it
Return(t) ==
    /\ th[t].pc = "now"
    /\ LET g == gens[th[t].self] IN
        issued' = issued \cup
            {[slot |-> th[t].self, k |-> th[t].k, ticket |-> th[t].current,
              began |-> th[t].began, timestamp |-> now, slept |-> th[t].slept,
              id |-> ComposeId(now, g.datacenter_id, g.machine_id, th[t].current)]}
    /\ th' = [th EXCEPT ![t] = Idle]
    /\ UNCHANGED <<gens, now, calls, callers, news, lastNew>>

\* lib.rs 77: timestamp - EPOCH_START underflows when the clock is before
\* EPOCH_START.  A build with overflow checks panics there and the thread
\* is gone; a build without them wraps, and the call goes on to Return.
Panic(t) ==
    /\ th[t].pc = "now"
    /\ now < 0
    /\ th' = [th EXCEPT ![t] = [pc |-> "panicked"]]
    /\ UNCHANGED <<gens, now, calls, callers, news, lastNew, issued>>

\* a millisecond passes
Tick ==
    /\ now < MaxClock
    /\ now' = now + 1
    /\ UNCHANGED <<gens, th, calls, callers, news, lastNew, issued>>

\* the program with the threads T sharing the generators kept in the slots S
NextOn(T, S) ==
    \/ \E s \in S, d \in DatacenterInputs, m \in MachineInputs : New(s, d, m)
    \/ \E t \in T, s \in S : FetchAdd(t, s)
    \/ \E t \in T : Cas(t)
    \/ \E t \in T : Wake(t)
    \/ \E t \in T : Return(t)
    \/ Tick

\* two threads sharing one generator
Next == NextOn(Threads, {1})

Spec == Init /\ [][Next]_vars

(***************************************************************************)
(* The same program on a machine whose clock starts just before            *)
(* EPOCH_START, or just before the last timestamp an id has room for.      *)
(***************************************************************************)
ClockStarts == {-1, 2 ^ TIMESTAMP_BITS - 1}

\* a millisecond passes, up to one millisecond after the start
TickFrom(starts) ==
    /\ now \in starts
    /\ now' = now + 1
    /\ UNCHANGED <<gens, th, calls, callers, news, lastNew, issued>>

InitClock ==
    /\ gens = [s \in Slots |-> None]
    /\ now \in ClockStarts
    /\ th = [t \in Threads |-> Idle]
    /\ calls = [s \in Slots |-> 0]
    /\ callers = [s \in Slots |-> {}]
    /\ news = 0
    /\ lastNew = None
    /\ issued = {}

NextClock ==
    \/ New(1, 1, 1)
    \/ \E t \in Threads : FetchAdd(t, 1)
    \/ \E t \in Threads : Cas(t)
    \/ \E t \in Threads : Wake(t)
    \/ \E t \in Threads : Return(t)
    \/ \E t \in Threads : Panic(t)
    \/ TickFrom(ClockStarts)

SpecClock == InitClock /\ [][NextClock]_vars

(***************************************************************************)
(* Two threads and two generators, new(1, 1) and new(MAX_DATACENTER_ID, 1). *)
(***************************************************************************)
NextTwo ==
    \/ New(1, 1, 1)
    \/ New(2, MAX_DATACENTER_ID, 1)
    \/ \E t \in Threads, s \in Slots : FetchAdd(t, s)
    \/ \E t \in Threads : Cas(t)
    \/ \E t \in Threads : Wake(t)
    \/ \E t \in Threads : Return(t)
    \/ Tick

SpecTwo == Init /\ [][NextTwo]_vars

(***************************************************************************)
(* The same program under fair scheduling: a thread inside generate_id     *)
(* keeps being scheduled, and time keeps passing.  Whether a caller ever   *)
(* starts another call is up to the caller.                                *)
(***************************************************************************)
\* a millisecond passes; the clock's bound does not stop it under a sleeper
TickAwaited ==
    /\ \/ now < MaxClock
       \/ \E t \in Threads : th[t].pc = "sleep" /\ th[t].wake > now
    /\ now' = now + 1
    /\ UNCHANGED <<gens, th, calls, callers, news, lastNew, issued>>

\* generate_id calls started under fair scheduling
MaxFairCalls == 3

\* the steps of thread t inside generate_id, after its fetch_add
Proceed(t) == Cas(t) \/ Wake(t) \/ Return(t)

NextFair ==
    \/ New(1, 1, 1)
    \/ \E t \in Threads : calls[1] < MaxFairCalls /\ FetchAdd(t, 1)
    \/ \E t \in Threads : Cas(t)
    \/ \E t \in Threads : Wake(t)
    \/ \E t \in Threads : Return(t)
    \/ TickAwaited

SpecFair ==
    /\ Init
    /\ [][NextFair]_vars
    /\ \A t \in Threads : WF_vars(Proceed(t))
    /\ WF_vars(TickAwaited)

(***************************************************************************)
(* Vocabulary of the properties.                                           *)
(***************************************************************************)
Constructed == {s \in Slots : gens[s] # None}

\* the calls on slot s that have returned
IssuedOn(s) == {r \in issued : r.slot = s}

\* the calls on slot s still running
Running(s) ==
    {t \in Threads : th[t].pc \notin {"idle", "panicked"} /\ th[t].self = s}

\* the number of calls on slot s that run, for some part, in millisecond ms
CallsIn(s, ms) ==
    Cardinality({r \in IssuedOn(s) : r.began <= ms /\ ms <= r.timestamp})
        + Cardinality({t \in Running(s) : th[t].began <= ms})

\* the step is a call of new
NewStep == news' = news + 1

(***************************************************************************)
(* C1.  In every reachable state, under any interleaving of concurrent     *)
(* callers, the sequence counter of a generator is in 1..MAX_SEQUENCE.     *)
(***************************************************************************)
C1_SequenceInRange ==
    \A s \in Constructed : gens[s].sequence \in 1..MAX_SEQUENCE

(***************************************************************************)
(* C2.  With a clock that never moves backward, any two generate_id calls  *)
(* on the same instance return different ids, however many calls fall in   *)
(* one millisecond.                                                        *)
(***************************************************************************)
C2_IdsUnique ==
    \A a, b \in issued : (a.slot = b.slot /\ a.k # b.k) => a.id # b.id

(***************************************************************************)
(* C3.  No two calls on one instance that read the same millisecond        *)
(* return the same sequence value, provided fewer than MAX_SEQUENCE calls  *)
(* occur in that millisecond.                                              *)
(***************************************************************************)
C3_NoDuplicatePair ==
    \A a, b \in issued :
        (/\ a.slot = b.slot
         /\ a.k # b.k
         /\ a.timestamp = b.timestamp
         /\ CallsIn(a.slot, a.timestamp) < MAX_SEQUENCE)
        => SequenceField(a.id) # SequenceField(b.id)

(***************************************************************************)
(* C4.  Every id generate_id returns carries the generator's datacenter_id *)
(* in its datacenter field and its machine_id in its machine field.        *)
(***************************************************************************)
C4_IdentityFields ==
    \A r \in issued :
        /\ DatacenterField(r.id) = gens[r.slot].datacenter_id
        /\ MachineField(r.id) = gens[r.slot].machine_id

(***************************************************************************)
(* C5.  Every id generate_id returns has a sequence field in               *)
(* 1..MAX_SEQUENCE, never 0.                                               *)
(***************************************************************************)
C5_SequenceFieldInRange ==
    \A r \in issued : SequenceField(r.id) \in 1..MAX_SEQUENCE

(***************************************************************************)
(* C6.  When a single thread has made MAX_SEQUENCE calls in succession on  *)
(* a fresh generator, at least one of those calls has slept.               *)
(***************************************************************************)
C6_StallWithinMaxSequenceCalls ==
    \A s \in Constructed : \A t \in Threads :
        (/\ callers[s] = {t}
         /\ Cardinality(IssuedOn(s)) = MAX_SEQUENCE)
        => \E r \in IssuedOn(s) : r.slept

(***************************************************************************)
(* C7.  For every datacenter_id in 0..MAX_DATACENTER_ID and machine_id in  *)
(* 0..MAX_MACHINE_ID, the boundaries included, new returns Ok with a       *)
(* generator that holds the two ids as given and a sequence counter of 1,  *)
(* and that is the generator the caller holds until its first call.        *)
(***************************************************************************)
C7_NewInRange ==
    (/\ lastNew # None
     /\ lastNew.datacenter_id <= MAX_DATACENTER_ID
     /\ lastNew.machine_id <= MAX_MACHINE_ID)
    => /\ lastNew.result.ok
       /\ lastNew.result.value =
            [datacenter_id |-> lastNew.datacenter_id,
             machine_id |-> lastNew.machine_id, sequence |-> 1]
       /\ calls[lastNew.slot] = 0 => gens[lastNew.slot] = lastNew.result.value

\* new(MAX_DATACENTER_ID, MAX_MACHINE_ID) has returned
C7_Witness ==
    /\ lastNew # None
    /\ lastNew.datacenter_id = MAX_DATACENTER_ID
    /\ lastNew.machine_id = MAX_MACHINE_ID
    /\ gens[lastNew.slot] # None

(***************************************************************************)
(* C8.  Every call of new with datacenter_id > MAX_DATACENTER_ID, whatever *)
(* the machine_id, returns the datacenter error, stores no generator and   *)
(* leaves every existing generator, running call and returned id as it     *)
(* was.                                                                    *)
(***************************************************************************)
C8_DatacenterTooLarge ==
    [][(NewStep /\ lastNew'.datacenter_id > MAX_DATACENTER_ID)
        => /\ ~lastNew'.result.ok
           /\ lastNew'.result.msg = "Datacenter id must be less than"
           /\ lastNew'.result.limit = MAX_DATACENTER_ID
           /\ gens' = gens
           /\ UNCHANGED <<now, th, calls, callers, issued>>]_vars

\* new was called with both ids too large while a generator was in use
C8_Witness ==
    /\ lastNew # None
    /\ lastNew.datacenter_id > MAX_DATACENTER_ID
    /\ lastNew.machine_id > MAX_MACHINE_ID
    /\ ~lastNew.result.ok
    /\ \E s \in Constructed : Running(s) # {}

C10_FirstId ==
    \A r \in issued :
        r.k = 1 => /\ SequenceField(r.id) = 1
                   /\ MachineField(r.id) = gens[r.slot].machine_id
                   /\ DatacenterField(r.id) = gens[r.slot].datacenter_id

\* the first call on new(1, 1) has returned
C10_Witness ==
    \E r \in issued :
        /\ r.k = 1
        /\ gens[r.slot].datacenter_id = 1
        /\ gens[r.slot].machine_id = 1

(***************************************************************************)
(* C11.  When the fetch_add of a call made the counter reach MAX_SEQUENCE, *)
(* the counter is back in 1..MAX_SEQUENCE-1 once that call has done its    *)
(* compare_exchange, hence no later than its return.  (A counter that is   *)
(* above MAX_SEQUENCE then was never reset since, and never will be.)      *)
(***************************************************************************)
C11_ResetAfterReachingMax ==
    [][\A t \in Threads :
        (/\ th[t].pc = "cas"
         /\ th'[t].pc # "cas"
         /\ th[t].current + 1 = MAX_SEQUENCE)
        => gens'[th[t].self].sequence \in 1..(MAX_SEQUENCE - 1)]_vars

(***************************************************************************)
(* C12.  A call sleeps if and only if its ticket is MAX_SEQUENCE; a call   *)
(* that slept reads a timestamp strictly later than the millisecond it     *)
(* drew its ticket in; a call with any other ticket never waits.           *)
(***************************************************************************)
C12_SleepIffMaxTicket ==
    /\ \A r \in issued :
        /\ r.slept <=> r.ticket = MAX_SEQUENCE
        /\ r.slept => r.timestamp > r.began
    /\ \A t \in Threads :
        /\ th[t].pc = "sleep" => th[t].current = MAX_SEQUENCE
        /\ th[t].pc = "now" =>
            /\ th[t].slept <=> th[t].current = MAX_SEQUENCE
            /\ th[t].slept => now > th[t].began

\* a call that drew ticket MAX_SEQUENCE has slept and returned
C12_Witness ==
    \E r \in issued : r.slept /\ r.ticket = MAX_SEQUENCE

(***************************************************************************)
(* C13.  A call that reads a clock before EPOCH_START returns no id: no    *)
(* returned id was computed from a timestamp delta that wrapped.           *)
(***************************************************************************)
C13_NoIdBeforeEpoch ==
    \A r \in issued : r.timestamp >= 0

(***************************************************************************)
(* C14.  When the delta a call read is not negative and fits the           *)
(* timestamp field, shifting its id right by the three lower widths gives  *)
(* that delta, and masking the lower fields gives the generator's          *)
(* datacenter_id and machine_id and the call's ticket.                     *)
(***************************************************************************)
C14_RoundTrip ==
    \A r \in issued :
        (r.timestamp >= 0 /\ r.timestamp < 2 ^ TIMESTAMP_BITS)
        => /\ TimestampField(r.id) = r.timestamp
           /\ DatacenterField(r.id) = gens[r.slot].datacenter_id
           /\ MachineField(r.id) = gens[r.slot].machine_id
           /\ SequenceField(r.id) = r.ticket

(***************************************************************************)
(* C15.  Under fair scheduling every started generate_id call returns,     *)
(* whatever the other threads do: no call waits for another call.          *)
(***************************************************************************)
C15_EveryCallReturns ==
    \A t \in Threads : (th[t].pc # "idle") ~> (th[t].pc = "idle")

\* every call the bound allows has returned, one of them after a sleep
C15_Witness ==
    /\ Cardinality(issued) = MaxFairCalls
    /\ \A t \in Threads : th[t].pc = "idle"
    /\ \E r \in issued : r.slept

\* the generator the step of thread t is a step of generate_id on
CallSlot(t) == IF th[t].pc = "idle" THEN th'[t].self ELSE th[t].self

(***************************************************************************)
(* C16.  No step changes the datacenter_id or the machine_id of a          *)
(* generator, and the sequence counter of a generator changes only in a    *)
(* step of a generate_id call on that generator: a call on one generator   *)
(* leaves the counter of every other generator alone.                      *)
(***************************************************************************)
C16_Frame ==
    [][\A s \in Slots :
        gens[s] # None
        => /\ gens'[s] # None
           /\ gens'[s].datacenter_id = gens[s].datacenter_id
           /\ gens'[s].machine_id = gens[s].machine_id
           /\ gens'[s].sequence # gens[s].sequence
                => \E t \in Threads : th'[t] # th[t] /\ CallSlot(t) = s]_vars

\* both generators exist, both were called, and their counters differ
C16_Witness ==
    /\ Constructed = Slots
    /\ calls[1] > 0
    /\ calls[2] > 0
    /\ gens[1].sequence # gens[2].sequence

(***************************************************************************)
(* C17.  Every change of a sequence counter is an increment by exactly 1   *)
(* or a reset from exactly MAX_SEQUENCE to 1.  (The counter starts at 1,   *)
(* so between two resets it was incremented back up to MAX_SEQUENCE.)      *)
(***************************************************************************)
C17_IncrementOrReset ==
    [][\A s \in Slots :
        (gens[s] # None /\ gens'[s].sequence # gens[s].sequence)
        => \/ gens'[s].sequence = gens[s].sequence + 1
           \/ gens[s].sequence = MAX_SEQUENCE /\ gens'[s].sequence = 1]_vars

\* a counter was reset while both threads were inside generate_id on it
C17_Witness ==
    \E s \in Constructed :
        /\ gens[s].sequence < 1 + calls[s]
        /\ gens[s].sequence <= MAX_SEQUENCE
        /\ Running(s) = Threads

(***************************************************************************)
(* C18.  In single-threaded use of a generator, the k-th call draws ticket *)
(* ((k - 1) mod (MAX_SEQUENCE - 1)) + 1, never MAX_SEQUENCE, and between   *)
(* calls the counter is 1 after every MAX_SEQUENCE - 1 calls.              *)
(***************************************************************************)
C18_SingleThreadTickets ==
    \A s \in Constructed : \A t \in Threads :
        callers[s] = {t}
        => /\ \A r \in IssuedOn(s) :
                /\ r.ticket = ((r.k - 1) % (MAX_SEQUENCE - 1)) + 1
                /\ r.ticket # MAX_SEQUENCE
           /\ (th[t].pc = "idle" /\ calls[s] % (MAX_SEQUENCE - 1) = 0)
                => gens[s].sequence = 1

\* one thread has made MAX_SEQUENCE calls: the last one came after the wrap
C18_Witness ==
    \E s \in Constructed : \E t \in Threads :
        /\ callers[s] = {t}
        /\ \E r \in IssuedOn(s) : r.k = MAX_SEQUENCE

(***************************************************************************)
(* C19.  In single-threaded use of a generator, with a clock that never    *)
(* moves backward, each returned id is strictly greater than the id the    *)
(* call before it returned, across a wrap of the counter too.              *)
(***************************************************************************)
C19_SingleThreadMonotonic ==
    \A s \in Constructed : \A t \in Threads :
        callers[s] = {t}
        => \A a, b \in IssuedOn(s) : a.k < b.k => a.id < b.id

=============================================================================
